---- MODULE Spec2Model ----
(***************************************************************************)
(* go-dedupe: the concurrent scan (scanFiles, src/main.go:41-161) and the  *)
(* extraction loop of main (src/main.go:292-342).                          *)
(*                                                                         *)
(* The walker (filepath.Walk and its callback) runs in one thread; every   *)
(* eligible file gets one goroutine.  md5Queue is a buffered channel used  *)
(* as a counting semaphore, mu the mutex around fileDict/duplicateList,    *)
(* wg the WaitGroup joined before scanFiles returns.                       *)
(***************************************************************************)
EXTENDS Integers, Sequences, FiniteSets, TLC

\* ------------------------------------------------------------------ bounds
\* Number of directory entries the walk visits at most.
NFiles == 2
\* Number of hashed files in the scan results the extraction loop starts from.
XFiles == 4
\* Largest value of -maxQueueLength the model runs with.
MaxQ == 2

\* --------------------------------------------------------- program constants
\* int64(options.MaxMB)*1024*1024: bytes per unit of -maxmb.
MB == 1024 * 1024
\* The sentinel a failed hash is replaced by.
ZeroHash == "00000000000000000000000000000000"

\* ------------------------------------------------------------- environment
\* info.Size() of the regular files of the tree: empty, exactly one unit of
\* -maxmb, and one byte more.
Sizes == {0, MB, MB + 1}
\* The digests getMD5Hash can return: two ordinary ones and the 32 zeros.
Digests == {"d1", "d2", ZeroHash}
Bases == {"x.txt", "y.jpg"}
\* info.ModTime(): an older and a newer instant.
MTimes == {1, 2}

\* The tree that is walked: the i-th entry the walk visits is x.txt or y.jpg
\* of the root ("", the scan runs with -path .), of d1, of d2, ...
DirAt(i) ==
    CASE i \in {1, 2} -> ""
      [] i \in {3, 4} -> "d1"
      [] OTHER        -> "d2"

BaseAt(i) == IF i % 2 = 1 THEN "x.txt" ELSE "y.jpg"

PathAt(i) == [dir |-> DirAt(i), base |-> BaseAt(i)]

\* What the walk hands to its callback for one directory entry: an lstat error
\* (kind "err"), a directory/symlink/device (kind "other") or a regular file
\* with a size and a modification time.
Entries ==
    {[kind |-> "err", size |-> 0, mtime |-> 1],
     [kind |-> "other", size |-> 0, mtime |-> 1]}
    \cup [kind : {"file"}, size : Sizes, mtime : {1}]

\* What reading a file to its end yields: its digest, or an error.
HashResults ==
    [hash : Digests, err : {FALSE}] \cup {[hash |-> "", err |-> TRUE]}

\* A regular expression, by the set of base names it matches.
MatchString(re, base) == base \in re

\* The option sets a run is started with.
Options ==
    [MaxMB : {0, 1}, MaxQueueLength : 0 .. MaxQ,
     RegExes : {<<>>, <<{"x.txt"}>>, <<{"y.jpg"}, {"x.txt", "y.jpg"}>>}]

\* filepath.Base
Base(p) == p.base

VARIABLES
    options,          \* ScanOptions
    tree,             \* the entries the walk has visited so far, in walk order
    wpc,              \* the walker: "walk", "send", "wait", "returned"
    wg,               \* sync.WaitGroup counter
    md5Queue,         \* number of elements in the channel
    mu,               \* 0 when unlocked, else the goroutine holding it
    task,             \* per entry: the goroutine started for it
    fileDict,         \* key -> sequence of fileInfo
    duplicateList,    \* set of keys mapped to true
    zeroLengthFiles,
    largeFiles,
    uniqFilesPath,    \* -uniqFilesPath, "" when the flag is not given
    disk,             \* the file system: path -> content
    mpc,              \* main: "scan", "extract", "done"
    pending,          \* keys the range over duplicateList has not reached yet
    firstFile,        \* key -> the name of the latestFile chosen for it
    extracted,        \* the keys whose iteration ran to its end
    disk0             \* the file system as it was when the run started

scanVars == <<options, tree, wpc, wg, md5Queue, mu, task, fileDict,
              duplicateList, zeroLengthFiles, largeFiles>>

mainVars == <<uniqFilesPath, disk, mpc, pending, firstFile, extracted, disk0>>

vars == <<scanVars, mainVars>>

\* ------------------------------------------------------------ pure helpers
\* Mutant: the key is built from the size alone.
Key_SizeOnly(fileSize, fileHash) == <<fileSize, "">>

\* Mutant: the name filter lets every name pass.
Filtered_Never(opts, base) == FALSE

\* fmt.Sprintf("%d:%s", fileSize, fileHash): injective in both arguments.
Key(fileSize, fileHash) == <<fileSize, fileHash>>

\* len(options.RegExes) > 0 and no expression matches the base name.
Filtered(opts, base) ==
    /\ Len(opts.RegExes) > 0
    /\ ~ \E i \in 1 .. Len(opts.RegExes) : MatchString(opts.RegExes[i], base)

\* Mutant: a file of exactly the ceiling is skipped too.
TooLarge_AtCeiling(opts, fileSize) ==
    opts.MaxMB > 0 /\ fileSize >= opts.MaxMB * MB

\* int64(options.MaxMB) > 0 && fileSize > int64(options.MaxMB)*1024*1024
TooLarge(opts, fileSize) ==
    opts.MaxMB > 0 /\ fileSize > opts.MaxMB * MB

\* Mutant: a send that needs two free slots.
CanSend_Strict(len, cap) == len + 1 < cap

\* Mutant: a send that also proceeds on a full buffer.
CanSend_Full(len, cap) == len <= cap

\* A send on md5Queue proceeds when the buffer has room.
CanSend(len, cap) == len < cap

\* Mutant: Lock returns although another goroutine holds the mutex.
CanLock_Always(m) == TRUE

\* mu.Lock() returns when no goroutine holds the mutex.
CanLock(m) == m = 0

\* Mutant: the deferred Unlock is missing.
Unlocked_Not(m) == m

\* The mutex after mu.Unlock().
Unlocked(m) == 0

\* Mutant: no file counts as empty.
IsZeroLength_Never(fileSize) == FALSE

\* fileSize == 0
IsZeroLength(fileSize) == fileSize = 0

\* Mutant: the hash of a failed read is used as it is.
HashOrSentinel_Raw(r) == r.hash

\* The hash the goroutine goes on with: the sentinel replaces a failed hash.
HashOrSentinel(r) == IF r.err THEN ZeroHash ELSE r.hash

\* Mutant: the second member is appended and the key is not flagged.
Record_NoFlag(fd, dl, fileInfo) ==
    IF fileInfo.md5_hash # ZeroHash
    THEN IF fileInfo.key \in DOMAIN fd
         THEN [fileDict |-> [fd EXCEPT ![fileInfo.key] = Append(@, fileInfo)],
               duplicateList |-> dl]
         ELSE [fileDict |-> fd @@ (fileInfo.key :> <<fileInfo>>),
               duplicateList |-> dl]
    ELSE [fileDict |-> fd, duplicateList |-> dl]

\* Mutant: a later member replaces the group instead of joining it.
Record_Replace(fd, dl, fileInfo) ==
    IF fileInfo.md5_hash # ZeroHash
    THEN IF fileInfo.key \in DOMAIN fd
         THEN [fileDict |-> [fd EXCEPT ![fileInfo.key] = <<fileInfo>>],
               duplicateList |-> dl \cup {fileInfo.key}]
         ELSE [fileDict |-> fd @@ (fileInfo.key :> <<fileInfo>>),
               duplicateList |-> dl]
    ELSE [fileDict |-> fd, duplicateList |-> dl]

\* The body of the critical section (lines 141-148).
Record(fd, dl, fileInfo) ==
    IF fileInfo.md5_hash # ZeroHash
    THEN IF fileInfo.key \in DOMAIN fd
         THEN [fileDict |-> [fd EXCEPT ![fileInfo.key] = Append(@, fileInfo)],
               duplicateList |-> dl \cup {fileInfo.key}]
         ELSE [fileDict |-> fd @@ (fileInfo.key :> <<fileInfo>>),
               duplicateList |-> dl]
    ELSE [fileDict |-> fd, duplicateList |-> dl]

NoTask == [pc |-> "none", filePath |-> [dir |-> "", base |-> "x.txt"],
           fileSize |-> 0, modTime |-> 1, fileHash |-> "", err |-> FALSE]

\* ------------------------------------------------------------------- Init
Init ==
    /\ options \in Options
    /\ tree = <<>>
    /\ wpc = "walk"
    /\ wg = 0
    /\ md5Queue = 0
    /\ mu = 0
    /\ task = [i \in 1 .. NFiles |-> NoTask]
    /\ fileDict = <<>>
    /\ duplicateList = {}
    /\ zeroLengthFiles = <<>>
    /\ largeFiles = <<>>
    /\ uniqFilesPath = ""
    /\ disk = <<>>
    /\ mpc = "scan"
    /\ pending = {}
    /\ firstFile = <<>>
    /\ extracted = {}
    /\ disk0 = disk

\* ----------------------------------------------------------------- walker
\* One call of the walk callback, up to its return or to the channel send.
WalkFn(e) ==
    /\ wpc = "walk"
    /\ Len(tree) < NFiles
    /\ tree' = Append(tree, e)
    /\ LET i == Len(tree) + 1
           filePath == PathAt(i)
           fileSize == e.size
       IN
       IF e.kind = "err" \/ e.kind # "file" \/ Filtered(options, Base(filePath))
       THEN UNCHANGED <<wpc, wg, zeroLengthFiles, largeFiles>>
       ELSE IF IsZeroLength(fileSize)
       THEN /\ zeroLengthFiles' = Append(zeroLengthFiles, filePath)
            /\ UNCHANGED <<wpc, wg, largeFiles>>
       ELSE IF TooLarge(options, fileSize)
       THEN /\ largeFiles' = Append(largeFiles, filePath)
            /\ UNCHANGED <<wpc, wg, zeroLengthFiles>>
       ELSE /\ wg' = wg + 1
            /\ wpc' = "send"
            /\ UNCHANGED <<zeroLengthFiles, largeFiles>>
    /\ UNCHANGED <<mainVars, options, md5Queue, mu, task, fileDict, duplicateList>>

\* md5Queue <- struct{}{} followed by the go statement.
Send ==
    /\ wpc = "send"
    /\ CanSend(md5Queue, options.MaxQueueLength)
    /\ md5Queue' = md5Queue + 1
    /\ LET i == Len(tree)
           e == tree[i]
       IN task' = [task EXCEPT ![i] =
                     [pc |-> "hash", filePath |-> PathAt(i),
                      fileSize |-> e.size, modTime |-> e.mtime,
                      fileHash |-> "", err |-> FALSE]]
    /\ wpc' = "walk"
    /\ UNCHANGED <<mainVars, options, tree, wg, mu, fileDict, duplicateList,
                   zeroLengthFiles, largeFiles>>

\* filepath.Walk has no entry left and returns.
WalkEnd ==
    /\ wpc = "walk"
    /\ wpc' = "wait"
    /\ UNCHANGED <<mainVars, options, tree, wg, md5Queue, mu, task, fileDict,
                   duplicateList, zeroLengthFiles, largeFiles>>

\* wg.Wait() and the return of scanFiles.
Wait ==
    /\ wpc = "wait"
    /\ wg = 0
    /\ wpc' = "returned"
    /\ UNCHANGED <<mainVars, options, tree, wg, md5Queue, mu, task, fileDict,
                   duplicateList, zeroLengthFiles, largeFiles>>

\* ------------------------------------------------------------- goroutines
\* fileHash, err := getMD5Hash(filePath), and the sentinel on error.
Hash(i, r) ==
    /\ task[i].pc = "hash"
    /\ task' = [task EXCEPT ![i].fileHash = HashOrSentinel(r),
                            ![i].err = r.err,
                            ![i].pc = "lock"]
    /\ UNCHANGED <<mainVars, options, tree, wpc, wg, md5Queue, mu, fileDict,
                   duplicateList, zeroLengthFiles, largeFiles>>

\* mu.Lock() and lines 141-148, with the lock held.
Update(i) ==
    /\ task[i].pc = "lock"
    /\ CanLock(mu)
    /\ mu' = i
    /\ LET t == task[i]
           key == Key(t.fileSize, t.fileHash)
           fileInfo == [name |-> t.filePath, size |-> t.fileSize,
                        md5_hash |-> t.fileHash, key |-> key,
                        mtime |-> t.modTime]
           r == Record(fileDict, duplicateList, fileInfo)
       IN /\ fileDict' = r.fileDict
          /\ duplicateList' = r.duplicateList
    /\ task' = [task EXCEPT ![i].pc = "unlock"]
    /\ UNCHANGED <<mainVars, options, tree, wpc, wg, md5Queue,
                   zeroLengthFiles, largeFiles>>

\* defer mu.Unlock()
Unlock(i) ==
    /\ task[i].pc = "unlock"
    /\ mu' = Unlocked(mu)
    /\ task' = [task EXCEPT ![i].pc = "release"]
    /\ UNCHANGED <<mainVars, options, tree, wpc, wg, md5Queue, fileDict,
                   duplicateList, zeroLengthFiles, largeFiles>>

\* defer func() { <-md5Queue }()
Release(i) ==
    /\ task[i].pc = "release"
    /\ md5Queue > 0
    /\ md5Queue' = md5Queue - 1
    /\ task' = [task EXCEPT ![i].pc = "wgdone"]
    /\ UNCHANGED <<mainVars, options, tree, wpc, wg, mu, fileDict,
                   duplicateList, zeroLengthFiles, largeFiles>>

\* defer wg.Done()
Done(i) ==
    /\ task[i].pc = "wgdone"
    /\ wg' = wg - 1
    /\ task' = [task EXCEPT ![i].pc = "done"]
    /\ UNCHANGED <<mainVars, options, tree, wpc, md5Queue, mu, fileDict,
                   duplicateList, zeroLengthFiles, largeFiles>>

Next ==
    \/ \E e \in Entries : WalkFn(e)
    \/ Send
    \/ WalkEnd
    \/ Wait
    \/ \E i \in 1 .. NFiles, r \in HashResults : Hash(i, r)
    \/ \E i \in 1 .. NFiles : Update(i)
    \/ \E i \in 1 .. NFiles : Unlock(i)
    \/ \E i \in 1 .. NFiles : Release(i)
    \/ \E i \in 1 .. NFiles : Done(i)

Spec == Init /\ [][Next]_vars

\* The walker thread: the next callback of filepath.Walk or its return.
WalkerStep == WalkEnd \/ \E e \in Entries : WalkFn(e)

\* The next step of the goroutine started for the i-th entry.
GoStep(i) ==
    \/ \E r \in HashResults : Hash(i, r)
    \/ Update(i)
    \/ Unlock(i)
    \/ Release(i)
    \/ Done(i)

\* The Go scheduler runs every runnable goroutine: the walker thread (its
\* callbacks, the channel send, wg.Wait) and each hashing goroutine take their
\* next step when it stays possible; reading a regular file ends.
Fairness ==
    /\ WF_vars(WalkerStep)
    /\ WF_vars(Send)
    /\ WF_vars(Wait)
    /\ \A i \in 1 .. NFiles : WF_vars(GoStep(i))

\* A scan without size ceiling and without name patterns: which files are
\* handed to goroutines is then decided by their kind and size alone.
InitFair ==
    /\ Init
    /\ options.MaxMB = 0
    /\ options.RegExes = <<>>

\* The scan under a fair scheduler.
SpecFair == InitFair /\ [][Next]_vars /\ Fairness

\* ------------------------------------------------------------- extraction
\* filepath.Join(dir, base); Join("", base) is base, a path relative to the
\* working directory, which is where the root of the walk is.
Join(dir, base) == [dir |-> dir, base |-> base]

\* uniqFilePath + "-dup-list.txt"
DupListPath(p) == [dir |-> p.dir, base |-> p.base \o "-dup-list.txt"]

\* Mutant: an equal time counts as later.
After_OrEqual(t, u) == t >= u

\* time.Time.After
After(t, u) == t > u

\* Lines 297-302: the index of latestFile in dupeFiles, scanning from k on
\* with `best` the index found so far (0 for nil).
RECURSIVE LatestFrom(_, _, _)
LatestFrom(dupeFiles, k, best) ==
    IF k > Len(dupeFiles) THEN best
    ELSE LatestFrom(dupeFiles, k + 1,
            IF best = 0 \/ After(dupeFiles[k].mtime, dupeFiles[best].mtime)
            THEN k ELSE best)

LatestFile(dupeFiles) == dupeFiles[LatestFrom(dupeFiles, 1, 0)]

\* Lines 336-340: the lines written to the duplicate list file.
RECURSIVE DupLines(_, _)
DupLines(dupeFiles, first) ==
    IF dupeFiles = <<>> THEN <<>>
    ELSE (IF Head(dupeFiles).name # first THEN <<Head(dupeFiles).name>>
          ELSE <<>>) \o DupLines(Tail(dupeFiles), first)

\* The content of a file: its bytes, named by their digest ("" for no bytes),
\* and, for a duplicate list, its lines.
Data(bytes) == [bytes |-> bytes, lines |-> <<>>]
Text(lines) == [bytes |-> "text", lines |-> lines]

\* os.Create followed by io.Copy from the already opened input: Create
\* truncates the file it names, so copying a file onto itself leaves it empty.
Copied(d, from, to) ==
    IF from = to THEN (to :> Data("")) @@ d
    ELSE (to :> d[from]) @@ d

\* os.Create and an io.Copy that fails: the output holds a part of the input.
Truncated(d, to) == (to :> Data("partial")) @@ d

\* The faults of one iteration, by the system call that fails.
Faults == {"none", "open", "create", "copy", "list"}

\* The range loop reaches the body for the first key.
StartExtract ==
    /\ mpc = "scan"
    /\ wpc = "returned"
    /\ mpc' = "extract"
    /\ pending' = duplicateList
    /\ UNCHANGED <<scanVars, uniqFilesPath, disk, firstFile, extracted, disk0>>

\* One iteration of the loop over duplicateList (lines 292-342).
ExtractGroup(dupe, fault) ==
    /\ mpc = "extract"
    /\ dupe \in pending
    /\ pending' = pending \ {dupe}
    /\ LET dupeFiles == fileDict[dupe]
       IN IF Len(dupeFiles) > 0
          THEN LET latestFile == LatestFile(dupeFiles)
                   first == latestFile.name
                   uniqFilePath == Join(uniqFilesPath, Base(first))
                   dupListFilePath == DupListPath(uniqFilePath)
               IN /\ firstFile' = (dupe :> first) @@ firstFile
                  /\ extracted' = IF fault = "none" THEN extracted \cup {dupe}
                                  ELSE extracted
                  /\ disk' =
                       CASE fault \in {"open", "create"} -> disk
                         [] fault = "copy" -> Truncated(disk, uniqFilePath)
                         [] fault = "list" -> Copied(disk, first, uniqFilePath)
                         [] OTHER ->
                              (dupListFilePath :> Text(DupLines(dupeFiles, first)))
                              @@ Copied(disk, first, uniqFilePath)
          ELSE UNCHANGED <<disk, firstFile, extracted>>
    /\ UNCHANGED <<scanVars, uniqFilesPath, mpc, disk0>>

\* The loop ends; main prints the lists and returns.
Finish ==
    /\ mpc = "extract"
    /\ pending = {}
    /\ mpc' = "done"
    /\ UNCHANGED <<scanVars, uniqFilesPath, disk, pending, firstFile, extracted,
                   disk0>>

\* The results a scan returns for XFiles regular, non-empty, readable files
\* whose goroutines entered the critical section in the order `order`.
RECURSIVE Aggregate(_, _, _, _)
Aggregate(infos, order, k, acc) ==
    IF k > Len(order) THEN acc
    ELSE Aggregate(infos, order, k + 1,
                   Record(acc.fileDict, acc.duplicateList, infos[order[k]]))

FileInfoAt(i, hash, mtime) ==
    [name |-> PathAt(i), size |-> MB, md5_hash |-> hash,
     key |-> Key(MB, hash), mtime |-> mtime]

\* What a destination outside the tree holds from an earlier run.
OldFiles(dir) ==
    LET p == Join(dir, "x.txt")
    IN (p :> Data("old")) @@ (DupListPath(p) :> Text(<<>>))

ExtractInit ==
    /\ options = [MaxMB |-> 0, MaxQueueLength |-> MaxQ, RegExes |-> <<>>]
    /\ \E hashes \in [1 .. XFiles -> {"d1", "d2"}],
          mtimes \in [1 .. XFiles -> MTimes],
          order \in Permutations(1 .. XFiles) :
          LET infos == [i \in 1 .. XFiles |-> FileInfoAt(i, hashes[i], mtimes[i])]
              r == Aggregate(infos, order, 1,
                             [fileDict |-> <<>>, duplicateList |-> {}])
          IN /\ tree = [i \in 1 .. XFiles |->
                          [kind |-> "file", size |-> MB, mtime |-> mtimes[i]]]
             /\ task = [i \in 1 .. XFiles |->
                          [pc |-> "done", filePath |-> PathAt(i), fileSize |-> MB,
                           modTime |-> mtimes[i], fileHash |-> hashes[i],
                           err |-> FALSE]]
             /\ fileDict = r.fileDict
             /\ duplicateList = r.duplicateList
             /\ \E dest \in {"", "d1", "out"}, old \in BOOLEAN :
                  /\ old => dest = "out"
                  /\ uniqFilesPath = dest
                  /\ disk = [p \in {PathAt(i) : i \in 1 .. XFiles} |->
                              Data(hashes[CHOOSE i \in 1 .. XFiles : PathAt(i) = p])]
                            @@ (IF old THEN OldFiles(dest) ELSE <<>>)
    /\ wpc = "returned"
    /\ wg = 0
    /\ md5Queue = 0
    /\ mu = 0
    /\ zeroLengthFiles = <<>>
    /\ largeFiles = <<>>
    /\ mpc = "scan"
    /\ pending = {}
    /\ firstFile = <<>>
    /\ extracted = {}
    /\ disk0 = disk

NextExtract ==
    \/ StartExtract
    \/ \E dupe \in pending, fault \in Faults : ExtractGroup(dupe, fault)
    \/ Finish

SpecExtract == ExtractInit /\ [][NextExtract]_vars

\* ================================================================== claims
\* The path p is the name of a record of some group.
InGroup(p) ==
    \E k \in DOMAIN fileDict :
        \E n \in 1 .. Len(fileDict[k]) : fileDict[k][n].name = p

\* The number of positions of the sequence s that hold p.
Count(p, s) == Cardinality({n \in 1 .. Len(s) : s[n] = p})

\* The set of names of a group.
Names(group) == {group[n].name : n \in 1 .. Len(group)}

\* The entries visited so far.
Visited == 1 .. Len(tree)

\* The i-th entry is a regular file that lstat could read.
Regular(i) == tree[i].kind = "file"

\* The i-th entry is a regular file that passes the name filter.
Scanned(i) == Regular(i) /\ ~ Filtered(options, BaseAt(i))

\* The goroutines that were started and have not released their permit.
Active == {i \in DOMAIN task : task[i].pc \in {"hash", "lock", "unlock", "release"}}

\* The goroutine of the i-th entry got a digest (err == nil) / got an error.
HashedOk(i) == task[i].pc \in {"lock", "unlock", "release", "wgdone", "done"} /\ ~ task[i].err
HashFailed(i) == task[i].pc # "none" /\ task[i].err

\* C1: with a concurrency limit Q >= 1, in every reachable state the number of
\* hashing tasks that were started and have not yet released their permit is
\* at most Q.
C1_AtMostQActive ==
    options.MaxQueueLength >= 1 => Cardinality(Active) <= options.MaxQueueLength

\* C1 witness: all Q permits are held by running tasks and the walker is
\* blocked on the send for the next file.
C1_Witness ==
    /\ options.MaxQueueLength >= 1
    /\ Cardinality(Active) = options.MaxQueueLength
    /\ wpc = "send"

\* C2 as stated: when scanFiles has returned, any two successfully hashed
\* files of equal size and equal digest are members of one common group, and
\* the set of paths of each key's group is the set of successfully hashed
\* files with that size and digest, whatever the order of completion.
C2_EqualFilesShareGroup ==
    wpc = "returned" =>
        /\ \A i, j \in DOMAIN task :
             (/\ i # j
              /\ HashedOk(i) /\ HashedOk(j)
              /\ task[i].fileSize = task[j].fileSize
              /\ task[i].fileHash = task[j].fileHash)
             => \E k \in DOMAIN fileDict :
                    {task[i].filePath, task[j].filePath} \subseteq Names(fileDict[k])
        /\ \A k \in DOMAIN fileDict :
             Names(fileDict[k]) =
                {task[i].filePath : i \in {j \in DOMAIN task :
                    HashedOk(j) /\ Key(task[j].fileSize, task[j].fileHash) = k}}

\* C3: a file whose hashing fails is in no group and in neither list, no key
\* is flagged unless two of its members were hashed successfully, and when the
\* scan has returned every visited entry has been processed: every started
\* goroutine has finished, and every other file the aggregator accepts (a
\* digest other than the sentinel) is recorded.
C3_FailedFilesDropped ==
    /\ \A i \in DOMAIN task : HashFailed(i) =>
          /\ ~ InGroup(task[i].filePath)
          /\ Count(task[i].filePath, zeroLengthFiles) = 0
          /\ Count(task[i].filePath, largeFiles) = 0
    /\ \A k \in duplicateList :
          Cardinality({i \in DOMAIN task :
              HashedOk(i) /\ task[i].filePath \in Names(fileDict[k])}) >= 2
    /\ wpc = "returned" =>
          \A j \in DOMAIN task :
             /\ task[j].pc \in {"none", "done"}
             /\ (HashedOk(j) /\ task[j].fileHash # ZeroHash)
                   => InGroup(task[j].filePath)

\* C3 witness: the scan has returned, one file failed to hash, and another
\* file, visited after it, is recorded in a group.
C3_Witness ==
    /\ wpc = "returned"
    /\ \E i, j \in DOMAIN task :
          /\ i < j
          /\ HashFailed(i)
          /\ HashedOk(j)
          /\ InGroup(task[j].filePath)

Ceiling == options.MaxMB * MB

C6_FlaggedIffTwoMembers ==
    /\ duplicateList \subseteq DOMAIN fileDict
    /\ \A k \in DOMAIN fileDict :
          k \in duplicateList <=> Len(fileDict[k]) >= 2

\* C6 witness: a group has just reached two members, its key is flagged, and
\* the goroutine that added the second member still holds the lock.
C6_Witness ==
    /\ mu # 0
    /\ wpc # "returned"
    /\ \E k \in duplicateList :
          /\ Len(fileDict[k]) = 2
          /\ fileDict[k][2].name = task[mu].filePath

\* C7: no step removes a key from the duplicate-key set, removes a group from
\* the mapping, or removes or changes a record of a group.
C7_FlagsAndGroupsOnlyGrow ==
    [][/\ duplicateList \subseteq duplicateList'
       /\ \A k \in DOMAIN fileDict :
             /\ k \in DOMAIN fileDict'
             /\ Len(fileDict'[k]) >= Len(fileDict[k])
             /\ SubSeq(fileDict'[k], 1, Len(fileDict[k])) = fileDict[k]]_vars

\* C7 witness: a key was flagged, no member was added after that, and the key
\* is still flagged when the scan has returned.
C7_Witness ==
    /\ wpc = "returned"
    /\ \E k \in duplicateList : Len(fileDict[k]) = 2

\* The paths of the files the scan hashed.
SourcePaths == {task[i].filePath : i \in DOMAIN task}

\* C8 as stated: extraction never overwrites a file that already exists at the
\* destination, whether it was left there by an earlier run or written for an
\* earlier group of this run: no step changes the content found under an
\* existing path of the destination directory (other than a scanned file).
C8_NeverOverwrites ==
    [][\A p \in DOMAIN disk :
          (p.dir = uniqFilesPath /\ p \notin SourcePaths)
             => (p \in DOMAIN disk' /\ disk'[p] = disk[p])]_vars

\* The position in the group of key k of the record named firstFile[k].
ChosenAt(k) == CHOOSE n \in 1 .. Len(fileDict[k]) : fileDict[k][n].name = firstFile[k]

\* C9: for every duplicate group the loop has reached, the chosen
\* representative is a member whose modification time is at least that of
\* every member, and strictly greater than that of every member before it in
\* the group's order.
C9_LatestFirstAmongTies ==
    \A k \in DOMAIN firstFile :
        /\ firstFile[k] \in Names(fileDict[k])
        /\ \A n \in 1 .. Len(fileDict[k]) :
              /\ fileDict[k][ChosenAt(k)].mtime >= fileDict[k][n].mtime
              /\ n < ChosenAt(k) =>
                    fileDict[k][ChosenAt(k)].mtime > fileDict[k][n].mtime

\* C9 witness: a group of three with the newest time shared by its second and
\* third member and an older first member has been processed; the second
\* member was chosen.
C9_Witness ==
    \E k \in DOMAIN firstFile :
        /\ Len(fileDict[k]) = 3
        /\ fileDict[k][1].mtime < fileDict[k][2].mtime
        /\ fileDict[k][2].mtime = fileDict[k][3].mtime
        /\ firstFile[k] = fileDict[k][2].name

\* C10 as stated: with an empty uniqFilesPath no canonical copy and no
\* manifest is created or written: the file system stays as it was.
C10_NoDestinationNoFiles ==
    uniqFilesPath = "" => disk = disk0

\* C11 as stated: when scanFiles has returned, no goroutine is hashing,
\* waiting for or holding the lock, or holding a permit, and the record of
\* every goroutine whose hash succeeded is in the groups mapping.
C11_ReturnAfterAllRecorded ==
    wpc = "returned" =>
        /\ \A i \in DOMAIN task : task[i].pc \in {"none", "done"}
        /\ mu = 0
        /\ md5Queue = 0
        /\ wg = 0
        /\ \A i \in DOMAIN task : HashedOk(i) => InGroup(task[i].filePath)

\* C12: with Q >= 1, under a fair scheduler the scan does not deadlock:
\* scanFiles eventually passes wg.Wait and returns, and then every goroutine
\* that was started (that held a permit, whether its hash succeeded or failed)
\* has finished and no permit is held; so every goroutine gave its permit back
\* and every send the walker was blocked on went through. Each release takes
\* exactly one permit out of the channel, and it is the releasing goroutine's.
C12_NoDeadlockUnderFairness ==
    /\ options.MaxQueueLength >= 1 =>
           <>(/\ wpc = "returned"
              /\ md5Queue = 0
              /\ \A i \in 1 .. NFiles : task[i].pc \in {"none", "done"})
    /\ [][md5Queue' < md5Queue =>
              /\ md5Queue' = md5Queue - 1
              /\ \E i \in 1 .. NFiles :
                     /\ task[i].pc = "release"
                     /\ task'[i].pc = "wgdone"
                     /\ \A j \in 1 .. NFiles \ {i} : task'[j] = task[j]]_vars

\* C12 witness: with one permit, scanFiles has returned after two goroutines
\* ran, one whose hash failed and one whose hash succeeded.
C12_Witness ==
    /\ options.MaxQueueLength = 1
    /\ wpc = "returned"
    /\ md5Queue = 0
    /\ \E i, j \in 1 .. NFiles :
           /\ task[i].pc = "done" /\ task[i].err
           /\ task[j].pc = "done" /\ ~ task[j].err

\* C15 as stated: when scanFiles has returned, every file handed to a goroutine
\* whose hash succeeded has exactly one record, at exactly one position of
\* exactly one group, whatever its digest.
C15_OneRecordPerHashedFile ==
    wpc = "returned" =>
        \A i \in DOMAIN task :
            HashedOk(i) =>
                Cardinality({<<k, n>> \in (DOMAIN fileDict) \X (1 .. NFiles) :
                                 /\ n <= Len(fileDict[k])
                                 /\ fileDict[k][n].name = task[i].filePath}) = 1

\* The goroutines between mu.Lock() and mu.Unlock().
InCritical == {i \in DOMAIN task : task[i].pc = "unlock"}

Submitted(i) == task[i].pc # "none" \/ (wpc = "send" /\ i = Len(tree))

\* The i-th entry is in the zero-length list / in the oversize list.
InZeroList(i) == Count(PathAt(i), zeroLengthFiles) = 1
InLargeList(i) == Count(PathAt(i), largeFiles) = 1

\* No pattern is configured, or the base name of the i-th entry matches one.
NameAccepted(i) ==
    \/ options.RegExes = <<>>
    \/ \E k \in 1 .. Len(options.RegExes) : BaseAt(i) \in options.RegExes[k]

\* The i-th entry is above the configured ceiling.
AboveCeiling(i) == options.MaxMB > 0 /\ tree[i].size > Ceiling

C18_WalkerBlockedOnlyOnFullQueue ==
    /\ md5Queue <= options.MaxQueueLength
    /\ (wpc = "send" /\ md5Queue < options.MaxQueueLength) => ENABLED Send
    /\ wpc \in {"walk", "send"} =>
           (~ ENABLED (WalkerStep \/ Send)
                <=> (wpc = "send" /\ md5Queue = options.MaxQueueLength))

\* C18 witness: the walker is at a send, a permit is free and the goroutine
\* of an earlier file is still hashing.
C18_Witness ==
    /\ wpc = "send"
    /\ md5Queue < options.MaxQueueLength
    /\ \E i \in DOMAIN task : task[i].pc = "hash"

\* C19: a goroutine holds the lock only between its Lock and its Unlock, after
\* getMD5Hash has returned (with a digest or an error) and before it gives its
\* permit back and calls wg.Done; the goroutines that hash or wait for the lock
\* hold no lock, so Q of them can hash at once.
C19_NoLockWhileHashing ==
    /\ \A i \in DOMAIN task :
           /\ task[i].pc \in {"none", "hash", "lock"} => mu # i
           /\ task[i].pc \in {"release", "wgdone", "done"} => mu # i
           /\ task[i].pc = "unlock" => mu = i
    /\ mu # 0 => task[mu].fileHash # ""

\* C19 witness: Q = 2 goroutines are computing a digest at the same instant.
C19_Witness ==
    /\ options.MaxQueueLength = 2
    /\ Cardinality({i \in DOMAIN task : task[i].pc = "hash"}) = 2
    /\ mu = 0

\* C20: every record of the group stored under a key has the size and the
\* digest the key was built from, so the records of one group agree on both.
C20_GroupMatchesKey ==
    \A k \in DOMAIN fileDict :
        \A n \in 1 .. Len(fileDict[k]) :
            /\ k[1] = fileDict[k][n].size
            /\ k[2] = fileDict[k][n].md5_hash
            /\ \A m \in 1 .. Len(fileDict[k]) :
                   /\ fileDict[k][m].size = fileDict[k][n].size
                   /\ fileDict[k][m].md5_hash = fileDict[k][n].md5_hash

\* C20 witness: two files of one size and different digests are recorded, each
\* in the group of its own key.
C20_Witness ==
    \E k1, k2 \in DOMAIN fileDict :
        /\ k1 # k2
        /\ k1[1] = k2[1]
        /\ Len(fileDict[k1]) = 1
        /\ Len(fileDict[k2]) = 1

\* The path of the copy and of the manifest of the group of key k.
CopyOf(k) == Join(uniqFilesPath, Base(firstFile[k]))
ManifestOf(k) == DupListPath(CopyOf(k))

\* The lines found in the manifest of the group of key k.
ManifestLines(k) ==
    IF ManifestOf(k) \in DOMAIN disk THEN disk[ManifestOf(k)].lines ELSE <<>>

\* C13 as stated: for every group whose extraction ran to its end, the
\* manifest holds the path of every member other than the canonical one, each
\* once, one per line, and not the canonical path: n - 1 lines for n members.
C13_ManifestListsOtherMembers ==
    \A k \in extracted :
        /\ ManifestOf(k) \in DOMAIN disk
        /\ Len(ManifestLines(k)) = Len(fileDict[k]) - 1
        /\ \A p \in Names(fileDict[k]) :
               Count(p, ManifestLines(k)) = (IF p = firstFile[k] THEN 0 ELSE 1)

\* C14 as stated: whatever faults hit the other groups and whatever the order
\* of the loop, when the run has ended the loop has reached every duplicate
\* group, and every group whose own iteration met no fault is extracted: its
\* copy holds the content of its canonical file and its manifest lists its
\* other members.
C14_FaultAbandonsOneGroup ==
    mpc = "done" =>
        /\ DOMAIN firstFile = duplicateList
        /\ \A k \in extracted :
               /\ CopyOf(k) \in DOMAIN disk
               /\ disk[CopyOf(k)] = disk0[firstFile[k]]
               /\ ManifestOf(k) \in DOMAIN disk
               /\ ManifestLines(k) = DupLines(fileDict[k], firstFile[k])

\* C21 as stated: for every destination setting, extraction leaves every
\* scanned file as it was when the run started: the copy is never created
\* under the path of a scanned file.
C21_SourcesUnchanged ==
    \A p \in SourcePaths : p \in DOMAIN disk /\ disk[p] = disk0[p]

\* ------------------------------------------- the earlier, sequential scan
\* The callback of the sequential scanFiles for the i-th entry e, whose
\* getMD5Hash call (made only for a regular, non-empty file below the
\* ceiling) returns r; acc holds the four results so far.
SeqWalkFn(acc, opts, i, e, r) ==
    LET filePath == PathAt(i)
        fileSize == e.size
    IN IF e.kind = "err" THEN acc
       ELSE IF e.kind # "file" THEN acc
       ELSE IF fileSize = 0
       THEN [acc EXCEPT !.zeroLengthFiles = Append(@, filePath)]
       ELSE IF opts.MaxMB > 0 /\ fileSize > opts.MaxMB * MB
       THEN [acc EXCEPT !.largeFiles = Append(@, filePath)]
       ELSE IF r.err THEN acc
       ELSE LET fileHash == r.hash
                key == Key(fileSize, fileHash)
                fileInfo == [name |-> filePath, size |-> fileSize,
                             md5_hash |-> fileHash, key |-> key]
            IN IF key \in DOMAIN acc.fileDict
               THEN [acc EXCEPT !.fileDict[key] = Append(@, fileInfo),
                                !.duplicateList = @ \cup {key}]
               ELSE [acc EXCEPT !.fileDict = @ @@ (key :> <<fileInfo>>)]

\* The sequential scanFiles: filepath.Walk calls the callback for the entries
\* in walk order, from the k-th on.
RECURSIVE SeqScanFiles(_, _, _, _, _)
SeqScanFiles(entries, results, opts, k, acc) ==
    IF k > Len(entries) THEN acc
    ELSE SeqScanFiles(entries, results, opts, k + 1,
                      SeqWalkFn(acc, opts, k, entries[k], results[k]))

\* What getMD5Hash returned for the i-th entry in this run.
HashResultOf(i) ==
    IF task[i].err THEN [hash |-> "", err |-> TRUE]
    ELSE [hash |-> task[i].fileHash, err |-> FALSE]

\* The results of the sequential scan of the same entries, with the same
\* outcomes of getMD5Hash.
SeqResult ==
    SeqScanFiles(tree, [i \in 1 .. Len(tree) |-> HashResultOf(i)], options, 1,
                 [fileDict |-> <<>>, duplicateList |-> {},
                  zeroLengthFiles |-> <<>>, largeFiles |-> <<>>])

\* C22 as stated: with no pattern configured and Q >= 1, when the concurrent
\* scanFiles has returned, its results are those of the sequential scanFiles
\* up to the order inside a group: the same keys, the same set of paths per
\* key, the same duplicate keys, the same zero-length and oversize lists.
C22_SameAsSequential ==
    (wpc = "returned" /\ options.RegExes = <<>>
         /\ options.MaxQueueLength >= 1) =>
        /\ DOMAIN fileDict = DOMAIN SeqResult.fileDict
        /\ \A k \in DOMAIN fileDict \cap DOMAIN SeqResult.fileDict :
               Names(fileDict[k]) = Names(SeqResult.fileDict[k])
        /\ duplicateList = SeqResult.duplicateList
        /\ zeroLengthFiles = SeqResult.zeroLengthFiles
        /\ largeFiles = SeqResult.largeFiles

\* C23 as stated: under a fair scheduler the scan terminates for every
\* concurrency limit the flag accepts, MaxQueueLength = 0 included: every
\* send of the walker goes through and scanFiles returns.
C23_TerminatesForEveryLimit ==
    /\ (wpc = "send") ~> (wpc = "walk")
    /\ <>(wpc = "returned")

====
